---- MODULE Spec2Model ----
(***************************************************************************)
(* Content ingestion pipeline of hcg-blog-generator:                       *)
(*   src/content/processor.ts  processContent, generatePermalink,          *)
(*                             generateOutputPath, processItem             *)
(*   src/parsers/markdown.ts   parseMarkdownFile (front-matter cleaning)   *)
(*   src/config/index.ts       loadConfig                                  *)
(*   src/config/defaults.ts    DEFAULT_CONFIG, mergeConfigs                *)
(*   src/index.ts              main                                        *)
(*                                                                         *)
(* Spec is one run of processContent; ResolverSpec, ItemSpec and           *)
(* NormalizerSpec call generatePermalink / generateOutputPath, processItem *)
(* and the front-matter cleaning directly; ConfigSpec is main up to the    *)
(* start of processContent.                                                *)
(*                                                                         *)
(* Strings are sequences of one-character strings, so that startsWith,     *)
(* path.parse, slugify, the URL normalisation and the two string orders    *)
(* are computed character by character as the code computes them.  Paths   *)
(* are POSIX paths (path.sep = "/").  The body text of a file (rawContent, *)
(* htmlContent) takes no part in any decision of the pipeline and is left  *)
(* out of the item records.                                                *)
(***************************************************************************)
EXTENDS Integers, Sequences, FiniteSets, TLC

(***************************************************************************)
(* Bounds of the model.                                                    *)
(***************************************************************************)
\* number of files the glob hands to the classification loop
MaxFiles == 2
\* number of directory components below the source root in a resolver input
MaxDepth == 2

(***************************************************************************)
(* Characters.                                                             *)
(***************************************************************************)
LowerSeq == <<"a","b","c","d","e","f","g","h","i","j","k","l","m",
              "n","o","p","q","r","s","t","u","v","w","x","y","z">>
UpperSeq == <<"A","B","C","D","E","F","G","H","I","J","K","L","M",
              "N","O","P","Q","R","S","T","U","V","W","X","Y","Z">>
DigitSeq == <<"0","1","2","3","4","5","6","7","8","9">>

Range(s) == {s[k] : k \in DOMAIN s}
Lower == Range(LowerSeq)
Upper == Range(UpperSeq)
Digit == Range(DigitSeq)

IndexIn(s, c) == CHOOSE k \in DOMAIN s : s[k] = c

\* String.prototype.toLowerCase on one character
ToLowerChar(c) == IF c \in Upper THEN LowerSeq[IndexIn(UpperSeq, c)] ELSE c
toLowerCase(s) == [k \in DOMAIN s |-> ToLowerChar(s[k])]

(***************************************************************************)
(* String primitives of JavaScript.                                        *)
(***************************************************************************)
startsWith(s, p) == Len(p) <= Len(s) /\ SubSeq(s, 1, Len(p)) = p
endsWith(s, p) == Len(p) <= Len(s) /\ SubSeq(s, Len(s) - Len(p) + 1, Len(s)) = p

\* index of the last occurrence of c in s, 0 when there is none
LastIndexOf(s, c) ==
  IF \E k \in DOMAIN s : s[k] = c
  THEN CHOOSE k \in DOMAIN s : s[k] = c /\ \A m \in DOMAIN s : s[m] = c => m <= k
  ELSE 0

\* index of the first occurrence of a character of set cs in s, 0 when none
FirstIndexIn(s, cs) ==
  IF \E k \in DOMAIN s : s[k] \in cs
  THEN CHOOSE k \in DOMAIN s : s[k] \in cs /\ \A m \in DOMAIN s : s[m] \in cs => k <= m
  ELSE 0

\* String.prototype.split(sep) for a one-character separator
RECURSIVE split(_, _)
split(s, sep) ==
  LET k == FirstIndexIn(s, {sep})
  IN IF k = 0 THEN <<s>>
     ELSE <<SubSeq(s, 1, k - 1)>> \o split(SubSeq(s, k + 1, Len(s)), sep)

\* Array.prototype.join(sep)
RECURSIVE join(_, _)
join(segs, sep) ==
  IF Len(segs) = 0 THEN <<>>
  ELSE IF Len(segs) = 1 THEN segs[1]
  ELSE segs[1] \o sep \o join(Tail(segs), sep)

\* Array.prototype.filter(Boolean) on an array of strings
filterBoolean(segs) == SelectSeq(segs, LAMBDA g : g # <<>>)

(***************************************************************************)
(* Node's path module, POSIX flavour, on normalised paths.                 *)
(***************************************************************************)
sep == <<"/">>

\* path.basename
basename(p) == SubSeq(p, LastIndexOf(p, "/") + 1, Len(p))

\* path.dirname
dirname(p) ==
  LET k == LastIndexOf(p, "/")
  IN IF k = 0 THEN <<".">>
     ELSE IF k = 1 THEN sep
     ELSE SubSeq(p, 1, k - 1)

\* path.extname: from the last "." of the last portion to its end; empty when
\* there is no "." or the only "." is the first character of the portion
extname(p) ==
  LET b == basename(p)
      k == LastIndexOf(b, ".")
  IN IF k <= 1 \/ b = <<".", ".">> THEN <<>> ELSE SubSeq(b, k, Len(b))

\* path.parse: dir, base, ext, name of a relative or absolute path
parse(p) ==
  LET k == LastIndexOf(p, "/")
      b == basename(p)
      e == extname(p)
  IN [dir  |-> IF k = 0 THEN <<>> ELSE IF k = 1 THEN sep ELSE SubSeq(p, 1, k - 1),
      base |-> b,
      ext  |-> e,
      name |-> SubSeq(b, 1, Len(b) - Len(e))]

\* the components of an absolute path
Components(p) == filterBoolean(split(p, "/"))

\* length of the longest common prefix of two component lists
RECURSIVE CommonLen(_, _)
CommonLen(a, b) ==
  IF Len(a) = 0 \/ Len(b) = 0 \/ a[1] # b[1] THEN 0
  ELSE 1 + CommonLen(Tail(a), Tail(b))

\* path.relative(from, to) of two absolute paths
relative(from, to) ==
  LET f == Components(from)
      t == Components(to)
      n == CommonLen(f, t)
      ups == [k \in 1..(Len(f) - n) |-> <<".", ".">>]
  IN join(ups \o SubSeq(t, n + 1, Len(t)), sep)

\* resolution of "." and ".." components, as path.resolve and the URL parser do
RECURSIVE Normalize(_, _)
Normalize(todo, done) ==
  IF Len(todo) = 0 THEN done
  ELSE IF todo[1] = <<".">> THEN Normalize(Tail(todo), done)
  ELSE IF todo[1] = <<".", ".">>
       THEN Normalize(Tail(todo), SubSeq(done, 1, Len(done) - 1))
  ELSE Normalize(Tail(todo), Append(done, todo[1]))

\* path.resolve(base, rel) for an absolute base: an absolute rel replaces it
resolve(base, rel) ==
  LET comps == IF startsWith(rel, sep) THEN Normalize(Components(rel), <<>>)
               ELSE Normalize(Components(base) \o Components(rel), <<>>)
  IN sep \o join(comps, sep)

(***************************************************************************)
(* The two string orders.  Array.prototype.sort is stable, and both        *)
(* comparators of processContent are total preorders, so the sorted array  *)
(* is determined by the comparator.                                        *)
(***************************************************************************)
\* printable ASCII (without the quote, backslash and backtick) in code-unit order
ByteSeq == <<" ","!","#","$","%","&","'","(",")","*","+",",","-",".","/">>
           \o DigitSeq \o <<":",";","<","=",">","?","@">> \o UpperSeq
           \o <<"[","]","^","_">> \o LowerSeq \o <<"{","|","}","~">>

\* printable ASCII in the primary order of the root collation that
\* String.prototype.localeCompare applies: white space, punctuation, symbols,
\* digits, letters (the case of a letter is not a primary difference)
CollationSeq == <<" ","_","-",",",";",":","!","?",".","'","(",")","[","]",
                  "{","}","@","*","/","&","#","%","^","+","<","=",">",
                  "|","~","$">> \o DigitSeq \o LowerSeq

\* lexicographic comparison of two sequences of numbers: -1, 0 or 1
RECURSIVE LexCompare(_, _)
LexCompare(a, b) ==
  IF Len(a) = 0 THEN (IF Len(b) = 0 THEN 0 ELSE -1)
  ELSE IF Len(b) = 0 THEN 1
  ELSE IF a[1] < b[1] THEN -1
  ELSE IF a[1] > b[1] THEN 1
  ELSE LexCompare(Tail(a), Tail(b))

\* comparison by code units
byteCompare(a, b) ==
  LexCompare([k \in DOMAIN a |-> IndexIn(ByteSeq, a[k])],
             [k \in DOMAIN b |-> IndexIn(ByteSeq, b[k])])

\* String.prototype.localeCompare: primary weights first, the case of the
\* letters (lower case first) only between strings of equal primary weights
localeCompare(a, b) ==
  LET prim(x) == [k \in DOMAIN x |-> IndexIn(CollationSeq, ToLowerChar(x[k]))]
      tert(x) == [k \in DOMAIN x |-> IF x[k] \in Upper THEN 1 ELSE 0]
      c == LexCompare(prim(a), prim(b))
  IN IF c # 0 THEN c ELSE LexCompare(tert(a), tert(b))

\* a sort that is not stable: elements that compare equal come out reversed
sortUnstable(s, cmp) ==
  LET pos(k) == 1 + Cardinality({j \in DOMAIN s :
                       cmp[j, k] < 0 \/ (cmp[j, k] = 0 /\ j > k)})
  IN [p \in DOMAIN s |-> s[CHOOSE k \in DOMAIN s : pos(k) = p]]

\* Array.prototype.sort, stable, given cmp[j, k], the value of the comparator
\* on s[j] and s[k]: an element goes after every element that compares lower
\* and after every earlier element that compares equal
sort(s, cmp) ==
  LET pos(k) == 1 + Cardinality({j \in DOMAIN s :
                       cmp[j, k] < 0 \/ (cmp[j, k] = 0 /\ j < k)})
  IN [p \in DOMAIN s |-> s[CHOOSE k \in DOMAIN s : pos(k) = p]]

(***************************************************************************)
(* slugify(string, {lower: true, strict: true}) of the slugify package.    *)
(***************************************************************************)
WhiteSpace == {" "}
AlphaNum == Lower \cup Upper \cup Digit

\* the character map of the package (its ASCII entries used here) and the
\* replacement character "-", which becomes a space before the clean-up
charMap(c) ==
  IF c = "&" THEN <<"a","n","d">>
  ELSE IF c = "%" THEN <<"p","e","r","c","e","n","t">>
  ELSE IF c = "-" THEN <<" ">>
  ELSE <<c>>

\* the characters the default remove expression of the package keeps
DefaultAllowed == AlphaNum \cup WhiteSpace
                  \cup {"_","$","*","+","~",".","(",")","'","!","-",":","@"}

RECURSIVE MapChars(_)
MapChars(s) ==
  IF Len(s) = 0 THEN <<>>
  ELSE SelectSeq(charMap(s[1]), LAMBDA c : c \in DefaultAllowed) \o MapChars(Tail(s))

\* String.prototype.trim
RECURSIVE trim(_)
trim(s) ==
  IF Len(s) = 0 THEN s
  ELSE IF s[1] \in WhiteSpace THEN trim(Tail(s))
  ELSE IF s[Len(s)] \in WhiteSpace THEN trim(SubSeq(s, 1, Len(s) - 1))
  ELSE s

\* slug.replace(/\s+/g, replacement)
RECURSIVE ReplaceSpaces(_)
ReplaceSpaces(s) ==
  IF Len(s) = 0 THEN <<>>
  ELSE IF s[1] \in WhiteSpace
       THEN IF Len(s) > 1 /\ s[2] \in WhiteSpace
            THEN ReplaceSpaces(Tail(s))
            ELSE <<"-">> \o ReplaceSpaces(Tail(s))
  ELSE <<s[1]>> \o ReplaceSpaces(Tail(s))

\* slugify without the lower option
slugifyKeepCase(s) ==
  LET mapped == MapChars(s)
      strict == SelectSeq(mapped, LAMBDA c : c \in AlphaNum \cup WhiteSpace)
  IN ReplaceSpaces(trim(strict))

slugify(s) ==
  LET mapped == MapChars(s)
      strict == SelectSeq(mapped, LAMBDA c : c \in AlphaNum \cup WhiteSpace)
  IN toLowerCase(ReplaceSpaces(trim(strict)))

(***************************************************************************)
(* new URL(path, 'http://dummybase.com').pathname for a path that begins   *)
(* with "/": the path ends at the first "?" or "#", "." and ".." segments *)
(* are resolved and a space is percent-encoded.                            *)
(***************************************************************************)
RECURSIVE EncodeSegment(_)
EncodeSegment(s) ==
  IF Len(s) = 0 THEN <<>>
  ELSE (IF s[1] = " " THEN <<"%","2","0">> ELSE <<s[1]>>) \o EncodeSegment(Tail(s))

RECURSIVE UrlSegments(_, _)
UrlSegments(todo, done) ==
  IF Len(todo) = 0 THEN done
  ELSE LET last == Len(todo) = 1
           seg == todo[1]
       IN IF seg = <<".", ".">>
          THEN UrlSegments(Tail(todo),
                 SubSeq(done, 1, Len(done) - 1) \o (IF last THEN << <<>> >> ELSE <<>>))
          ELSE IF seg = <<".">>
          THEN UrlSegments(Tail(todo), done \o (IF last THEN << <<>> >> ELSE <<>>))
          ELSE UrlSegments(Tail(todo), Append(done, EncodeSegment(seg)))

pathname(p) ==
  LET cut == FirstIndexIn(p, {"?", "#"})
      raw == IF cut = 0 THEN p ELSE SubSeq(p, 1, cut - 1)
  IN sep \o join(UrlSegments(split(Tail(raw), "/"), <<>>), sep)

(***************************************************************************)
(* Front matter.  A date is absent, a Date object (valid or not, with its  *)
(* getTime()), a non-empty string (that Date can or cannot convert) or a   *)
(* falsy scalar; published is absent, a boolean or some other value; a     *)
(* slug is absent, a string or a number; tags and categories are absent,   *)
(* a scalar or an array of scalars.                                        *)
(***************************************************************************)
NoDate == [k |-> "absent", valid |-> FALSE, t |-> 0]
UndefinedDate == [k |-> "undefined", valid |-> FALSE, t |-> 0]
DateObject(time) == [k |-> "Date", valid |-> TRUE, t |-> time]
DateString(time) == [k |-> "string", valid |-> TRUE, t |-> time]
BadDateString == [k |-> "string", valid |-> FALSE, t |-> 0]
FalsyDate == [k |-> "falsy", valid |-> FALSE, t |-> 0]

NoSlug == [k |-> "absent", v |-> <<>>]
SlugString(chars) == [k |-> "string", v |-> chars]
SlugNumber == [k |-> "number", v |-> <<>>]

\* scalars of YAML and JSON: a string, a number, a boolean, null; undefined is
\* the value of a key that is not there
Str(chars) == [t |-> "string", n |-> 0, b |-> FALSE, s |-> chars]
Num(n) == [t |-> "number", n |-> n, b |-> FALSE, s |-> <<>>]
Bool(b) == [t |-> "boolean", n |-> 0, b |-> b, s |-> <<>>]
Null == [t |-> "null", n |-> 0, b |-> FALSE, s |-> <<>>]
Undefined == [t |-> "undefined", n |-> 0, b |-> FALSE, s |-> <<>>]

NoList == [k |-> "absent", v |-> Null, a |-> <<>>]
Scalar(v) == [k |-> "scalar", v |-> v, a |-> <<>>]
Array(a) == [k |-> "array", v |-> Null, a |-> a]

\* the empty mapping {}
EmptyFrontMatter ==
  [date |-> NoDate, published |-> "absent", slug |-> NoSlug,
   tags |-> NoList, categories |-> NoList]

\* JavaScript truthiness of frontMatter.date and of frontMatter.slug
DateTruthy(d) == d.k \in {"Date", "string"}
SlugTruthy(g) == (g.k = "string" /\ g.v # <<>>) \/ g.k = "number"

\* frontMatter.date instanceof Date
IsDateObject(d) == d.k = "Date"

\* new Date(value) of a string
NewDate(d) == [k |-> "Date", valid |-> d.valid, t |-> d.t]

(***************************************************************************)
(* parseMarkdownFile: the cleaning of the date field, of tags and of       *)
(* categories.                                                             *)
(***************************************************************************)
NormalizeDate(d) ==
  IF DateTruthy(d) /\ ~IsDateObject(d)
  THEN (IF NewDate(d).valid THEN NewDate(d) ELSE UndefinedDate)
  ELSE d

\* JavaScript truthiness of a scalar, and String(value)
Truthy(v) ==
  CASE v.t = "string" -> v.s # <<>>
    [] v.t = "number" -> v.n # 0
    [] v.t = "boolean" -> v.b
    [] OTHER -> FALSE

RECURSIVE NumberToString(_)
NumberToString(n) ==
  IF n < 10 THEN <<DigitSeq[n + 1]>>
  ELSE NumberToString(n \div 10) \o <<DigitSeq[(n % 10) + 1]>>

String(v) ==
  CASE v.t = "string" -> v
    [] v.t = "number" -> Str(NumberToString(v.n))
    [] v.t = "boolean" -> Str(IF v.b THEN <<"t","r","u","e">> ELSE <<"f","a","l","s","e">>)
    [] v.t = "null" -> Str(<<"n","u","l","l">>)
    [] OTHER -> Str(<<"u","n","d","e","f","i","n","e","d">>)

\* the cleaning of tags and of categories
NormalizeList(l) ==
  IF l.k = "scalar" /\ Truthy(l.v) THEN Array(<<String(l.v)>>)
  ELSE IF l.k = "array" THEN Array([i \in DOMAIN l.a |-> String(l.a[i])])
  ELSE l

NormalizeFrontMatter(fm) ==
  [fm EXCEPT !.date = NormalizeDate(fm.date),
             !.tags = NormalizeList(fm.tags),
             !.categories = NormalizeList(fm.categories)]

(***************************************************************************)
(* Configuration: the resolved absolute paths processContent reads.        *)
(***************************************************************************)
MD == <<".", "m", "d">>
HTML == <<".", "h", "t", "m", "l">>
INDEX == <<"i", "n", "d", "e", "x">>
BLOG == <<"b", "l", "o", "g">>
DRAFTS == <<"d", "r", "a", "f", "t", "s">>
POSTS == <<"p", "o", "s", "t", "s">>
PAGES == <<"p", "a", "g", "e", "s">>
OUTPUT == <<"o", "u", "t", "p", "u", "t">>

\* the directory loadConfig is called with
BaseDir == <<"/", "w">>

\* DEFAULT_CONFIG.paths after loadConfig has resolved them
DefaultPaths ==
  [source |-> BaseDir,
   output |-> resolve(BaseDir, OUTPUT),
   posts  |-> resolve(BaseDir, POSTS),
   pages  |-> resolve(BaseDir, PAGES),
   drafts |-> resolve(BaseDir, DRAFTS)]

(***************************************************************************)
(* generatePermalink(itemPath, frontMatter, itemType), with the paths of   *)
(* the configuration it closes over.                                       *)
(***************************************************************************)
\* name.replace(/^\d{4}-\d{2}-\d{2}-/, '')
StripDatePrefix(name) ==
  IF /\ Len(name) >= 11
     /\ \A k \in {1, 2, 3, 4, 6, 7, 9, 10} : name[k] \in Digit
     /\ \A k \in {5, 8, 11} : name[k] = "-"
  THEN SubSeq(name, 12, Len(name))
  ELSE name

\* slugify throws on an argument that is not a string
PermalinkThrows(frontMatter) == frontMatter.slug.k = "number"

\* the slug with the date prefix stripped for every item type
SlugAlwaysStripped(itemPath, frontMatter, itemType) ==
  IF SlugTruthy(frontMatter.slug) THEN slugify(frontMatter.slug.v)
  ELSE slugify(StripDatePrefix(parse(itemPath).name))

Slug(itemPath, frontMatter, itemType) ==
  IF SlugTruthy(frontMatter.slug) THEN slugify(frontMatter.slug.v)
  ELSE IF itemType = "post" THEN slugify(StripDatePrefix(parse(itemPath).name))
  ELSE slugify(parse(itemPath).name)

PageSegments(itemPath, slug, paths) ==
  LET pagesBaseDirName == basename(paths.pages)
      dirSegments == filterBoolean(split(parse(itemPath).dir, "/"))
      relevantSegments == SelectSeq(dirSegments, LAMBDA g : g # pagesBaseDirName)
  IN IF slug = INDEX THEN relevantSegments ELSE Append(relevantSegments, slug)

PathSegments(itemPath, slug, itemType, paths) ==
  IF itemType = "post" THEN <<BLOG, slug>>
  ELSE IF itemType = "draft" THEN <<DRAFTS, slug>>
  ELSE PageSegments(itemPath, slug, paths)

\* the trailing-slash branches without the one for a path without extension
TrailingSlashFirstBranchOnly(finalPermalink, itemPath, slug) ==
  IF finalPermalink # sep /\ (slug = INDEX \/ toLowerCase(extname(itemPath)) = MD)
  THEN (IF ~endsWith(finalPermalink, sep) THEN finalPermalink \o sep ELSE finalPermalink)
  ELSE finalPermalink

\* the trailing-slash branches applied to the path name of the URL
TrailingSlash(finalPermalink, itemPath, slug) ==
  IF finalPermalink # sep /\ (slug = INDEX \/ toLowerCase(extname(itemPath)) = MD)
  THEN (IF ~endsWith(finalPermalink, sep) THEN finalPermalink \o sep ELSE finalPermalink)
  ELSE IF /\ finalPermalink # sep
          /\ ~endsWith(finalPermalink, sep)
          /\ extname(itemPath) = <<>>
          /\ slug # INDEX
       THEN finalPermalink \o sep
  ELSE finalPermalink

\* permalinkUrl.pathname of the joined segments
UrlPath(itemPath, slug, itemType, paths) ==
  LET joinedPath == join(PathSegments(itemPath, slug, itemType, paths), sep)
  IN pathname(IF startsWith(joinedPath, sep) THEN joinedPath ELSE sep \o joinedPath)

generatePermalink(itemPath, frontMatter, itemType, paths) ==
  LET slug == Slug(itemPath, frontMatter, itemType)
  IN TrailingSlash(UrlPath(itemPath, slug, itemType, paths), itemPath, slug)

(***************************************************************************)
(* generateOutputPath(permalink)                                           *)
(***************************************************************************)
\* the output path with ".html" appended whatever the extension
generateOutputPathAlwaysHtml(permalink, paths) ==
  LET filePath == IF endsWith(permalink, sep) THEN permalink \o INDEX \o HTML
                  ELSE permalink \o HTML
      relativeOutputPath == IF startsWith(filePath, sep) THEN Tail(filePath) ELSE filePath
  IN resolve(paths.output, relativeOutputPath)

generateOutputPath(permalink, paths) ==
  LET filePath == IF endsWith(permalink, sep) THEN permalink \o INDEX \o HTML
                  ELSE IF extname(permalink) = <<>> THEN permalink \o HTML
                  ELSE permalink
      relativeOutputPath == IF startsWith(filePath, sep) THEN Tail(filePath) ELSE filePath
  IN resolve(paths.output, relativeOutputPath)

(***************************************************************************)
(* The two filters of processItem.                                         *)
(***************************************************************************)
\* the publish filter without its exemption of drafts
UnpublishedAlsoDrafts(frontMatter, isDraft) == frontMatter.published = "false"

\* frontMatter.published === false && !isDraft
Unpublished(frontMatter, isDraft) == frontMatter.published = "false" /\ ~isDraft

\* the date requirement without the test for a missing date
InvalidDateObjectOnly(frontMatter) ==
  IsDateObject(frontMatter.date) /\ ~frontMatter.date.valid

\* !frontMatter.date || !(frontMatter.date instanceof Date) || isNaN(getTime())
InvalidPostDate(frontMatter) ==
  \/ ~DateTruthy(frontMatter.date)
  \/ ~IsDateObject(frontMatter.date)
  \/ ~frontMatter.date.valid

(***************************************************************************)
(* processItem(filePath, itemType).  The content of a file is what reading *)
(* it yields: fails says whether reading it or parsing its front matter    *)
(* throws, fm is the front-matter block it carries.  The result is the     *)
(* empty sequence for null and a one-element sequence for an item.         *)
(***************************************************************************)
\* processItem with the front matter of an .html file parsed like that of a
\* Markdown file
processItemParsesHtml(filePath, itemType, content, paths) ==
  LET relativePath == relative(paths.source, filePath)
      fileExtension == toLowerCase(extname(filePath))
      fileType == IF fileExtension = MD THEN "markdown" ELSE "html"
      isDraft == itemType = "draft"
      thrown == IF fileType = "markdown" THEN content.fails # "none"
                ELSE content.fails = "read"
      frontMatter == NormalizeFrontMatter(content.fm)
      permalink == generatePermalink(relativePath, frontMatter, itemType, paths)
      baseItem == [id |-> relativePath,
                   sourcePath |-> filePath,
                   relativePath |-> relativePath,
                   fileType |-> fileType,
                   isDraft |-> isDraft,
                   frontMatter |-> frontMatter,
                   permalink |-> permalink,
                   outputPath |-> generateOutputPath(permalink, paths),
                   outputHref |-> <<>>]
  IN IF thrown THEN <<>>
     ELSE IF Unpublished(frontMatter, isDraft) THEN <<>>
     ELSE IF PermalinkThrows(frontMatter) THEN <<>>
     ELSE IF itemType = "post"
          THEN (IF InvalidPostDate(frontMatter)
                THEN <<>>
                ELSE <<baseItem @@ [date |-> frontMatter.date.t]>>)
     ELSE <<baseItem>>

processItem(filePath, itemType, content, paths) ==
  LET relativePath == relative(paths.source, filePath)
      fileExtension == toLowerCase(extname(filePath))
      fileType == IF fileExtension = MD THEN "markdown" ELSE "html"
      isDraft == itemType = "draft"
      thrown == IF fileType = "markdown" THEN content.fails # "none"
                ELSE content.fails = "read"
      frontMatter == IF fileType = "markdown" THEN NormalizeFrontMatter(content.fm)
                     ELSE EmptyFrontMatter
      permalink == generatePermalink(relativePath, frontMatter, itemType, paths)
      baseItem == [id |-> relativePath,
                   sourcePath |-> filePath,
                   relativePath |-> relativePath,
                   fileType |-> fileType,
                   isDraft |-> isDraft,
                   frontMatter |-> frontMatter,
                   permalink |-> permalink,
                   outputPath |-> generateOutputPath(permalink, paths),
                   outputHref |-> <<>>]
  IN IF thrown THEN <<>>
     ELSE IF Unpublished(frontMatter, isDraft) THEN <<>>
     ELSE IF PermalinkThrows(frontMatter) THEN <<>>
     ELSE IF itemType = "post"
          THEN (IF InvalidPostDate(frontMatter)
                THEN <<>>
                ELSE <<baseItem @@ [date |-> frontMatter.date.t]>>)
     ELSE <<baseItem>>

(***************************************************************************)
(* The glob of processContent: the four patterns, case-sensitive, without  *)
(* dot files, without directories that begin with "_" and node_modules.    *)
(***************************************************************************)
NODE_MODULES == <<"n","o","d","e","_","m","o","d","u","l","e","s">>

\* path-component containment: f lies inside directory root
Inside(f, root) ==
  LET r == Components(root)
      c == Components(f)
  IN Len(c) > Len(r) /\ SubSeq(c, 1, Len(r)) = r

Discovered(f, paths) ==
  LET rel == Components(relative(paths.source, f))
      dirs == SubSeq(rel, 1, Len(rel) - 1)
      base == basename(f)
  IN /\ Inside(f, paths.source)
     /\ \/ Inside(f, paths.posts)
        \/ Inside(f, paths.pages)
        \/ Inside(f, paths.drafts)
        \/ dirname(f) = paths.source
     /\ endsWith(base, MD) \/ endsWith(base, HTML)
     /\ \A k \in DOMAIN rel : rel[k][1] # "."
     /\ \A k \in DOMAIN dirs : dirs[k][1] # "_" /\ dirs[k] # NODE_MODULES

(***************************************************************************)
(* processContent: the classification of one file and the collection a     *)
(* built item is pushed to.                                                *)
(***************************************************************************)
ClassifyFile(filePath, paths) ==
  IF startsWith(filePath, paths.posts) THEN "post"
  ELSE IF startsWith(filePath, paths.drafts) THEN "draft"
  ELSE IF startsWith(filePath, paths.pages) THEN "page"
  ELSE IF dirname(filePath) = paths.source THEN "root_page"
  ELSE "skip"

\* the partition without the test of the isDraft flag
CollectionByTypeOnly(processedItem, itemType) ==
  IF itemType = "post" THEN "posts" ELSE "pages"

Collection(processedItem, itemType) ==
  IF processedItem.isDraft THEN "drafts"
  ELSE IF itemType = "post" THEN "posts"
  ELSE "pages"

\* the comparators of the three sorts
ByDateDescending(a, b) == b.date - a.date
ByPermalinkBytes(a, b) == byteCompare(a.permalink, b.permalink)
ByPermalink(a, b) == localeCompare(a.permalink, b.permalink)

(***************************************************************************)
(* The source trees the model draws from.                                  *)
(***************************************************************************)
File(comps) == BaseDir \o sep \o join(comps, sep)
Content(date, published, slug) ==
  [fails |-> "none",
   fm |-> [EmptyFrontMatter EXCEPT !.date = date, !.published = published, !.slug = slug]]
Plain == Content(NoDate, "absent", NoSlug)
Unreadable == [fails |-> "read", fm |-> EmptyFrontMatter]
Malformed == [fails |-> "parse", fm |-> EmptyFrontMatter]
Entry(comps, content) == [path |-> File(comps), content |-> content]

HELLO_WORLD_MD == <<"2","0","2","4","-","0","1","-","1","5","-","h","e","l","l","o","-","w","o","r","l","d",".","m","d">>
B_MD == <<"b",".","m","d">>
C_HTML == <<"c",".","h","t","m","l">>
D_MD == <<"d",".","m","d">>
ABOUT_MD == <<"a","b","o","u","t",".","m","d">>
ABOUT_HTML == <<"a","b","o","u","t",".","h","t","m","l">>
INDEX_MD == INDEX \o MD
INDEX_HTML == INDEX \o HTML
X_MD == <<"x",".","m","d">>
WIP_MD == <<"w","i","p",".","m","d">>
DATED_WIP_MD == <<"2","0","2","4","-","0","1","-","1","5","-","w","i","p",".","m","d">>
Z_HTML == <<"z",".","h","t","m","l">>
POSTSCRIPT_MD == <<"p","o","s","t","s","c","r","i","p","t",".","m","d">>
SUB == <<"s","u","b">>
PROJECTS == <<"p","r","o","j","e","c","t","s">>
DOCS == <<"D","o","c","s">>
GUIDE == <<"g","u","i","d","e">>
SITE == <<"s","i","t","e">>
MY_POST == <<"M","y"," ","P","o","s","t">>
DATED_SLUG == <<"2","0","2","4","-","0","1","-","1","5","-","x">>

\* a tree under the default configuration
DefaultTree ==
  { Entry(<<POSTS, HELLO_WORLD_MD>>, Content(DateObject(2), "absent", NoSlug)),
    Entry(<<POSTS, HELLO_WORLD_MD>>, Plain),
    Entry(<<POSTS, HELLO_WORLD_MD>>, Content(DateObject(2), "false", NoSlug)),
    Entry(<<POSTS, B_MD>>, Content(DateObject(1), "absent", NoSlug)),
    Entry(<<POSTS, B_MD>>, Content(DateString(2), "true", NoSlug)),
    Entry(<<POSTS, B_MD>>, Content(BadDateString, "absent", NoSlug)),
    Entry(<<POSTS, B_MD>>, Content(DateObject(2), "absent", SlugString(DATED_SLUG))),
    Entry(<<POSTS, SUB, C_HTML>>, Content(DateObject(1), "absent", NoSlug)),
    Entry(<<POSTS, SUB, D_MD>>, Content(DateObject(1), "absent", SlugString(MY_POST))),
    Entry(<<POSTS, SUB, D_MD>>, Content(FalsyDate, "absent", NoSlug)),
    Entry(<<POSTS, SUB, D_MD>>, Content(DateObject(2), "absent", SlugNumber)),
    Entry(<<POSTS, SUB, D_MD>>, Malformed),
    Entry(<<PAGES, ABOUT_MD>>, Plain),
    Entry(<<PAGES, ABOUT_MD>>, Content(NoDate, "false", NoSlug)),
    Entry(<<PAGES, ABOUT_MD>>, Content(NoDate, "other", NoSlug)),
    Entry(<<PAGES, ABOUT_MD>>, Content(BadDateString, "true", NoSlug)),
    Entry(<<PAGES, ABOUT_HTML>>, Plain),
    Entry(<<PAGES, ABOUT_HTML>>, Content(NoDate, "false", SlugString(MY_POST))),
    Entry(<<PAGES, ABOUT_HTML>>, Unreadable),
    Entry(<<PAGES, INDEX_HTML>>, Plain),
    Entry(<<PAGES, PROJECTS, INDEX_MD>>, Plain),
    Entry(<<PAGES, PROJECTS, B_MD>>, Content(NoDate, "absent", SlugString(INDEX))),
    Entry(<<PAGES, PROJECTS, B_MD>>, Content(NoDate, "absent", SlugString(MY_POST))),
    Entry(<<PAGES, DOCS, X_MD>>, Plain),
    Entry(<<PAGES, GUIDE, PAGES, X_MD>>, Plain),
    Entry(<<DRAFTS, WIP_MD>>, Plain),
    Entry(<<DRAFTS, WIP_MD>>, Content(NoDate, "false", NoSlug)),
    Entry(<<DRAFTS, WIP_MD>>, Content(DateObject(1), "absent", SlugString(MY_POST))),
    Entry(<<DRAFTS, DATED_WIP_MD>>, Plain),
    Entry(<<DRAFTS, SUB, Z_HTML>>, Plain),
    Entry(<<INDEX_MD>>, Plain),
    Entry(<<ABOUT_HTML>>, Plain),
    Entry(<<POSTSCRIPT_MD>>, Plain),
    Entry(<<POSTSCRIPT_MD>>, Content(DateObject(1), "absent", NoSlug)) }

\* a configuration whose drafts directory lies inside the posts directory
NestedPaths ==
  [source |-> BaseDir,
   output |-> resolve(BaseDir, OUTPUT),
   posts  |-> resolve(BaseDir, POSTS),
   pages  |-> resolve(BaseDir, SITE),
   drafts |-> resolve(resolve(BaseDir, POSTS), DRAFTS)]

NestedTree ==
  { Entry(<<POSTS, DRAFTS, WIP_MD>>, Content(DateObject(1), "absent", NoSlug)),
    Entry(<<POSTS, DRAFTS, WIP_MD>>, Plain),
    Entry(<<POSTS, B_MD>>, Content(DateObject(1), "absent", NoSlug)),
    Entry(<<SITE, ABOUT_MD>>, Plain),
    Entry(<<SITE, DOCS, SITE, INDEX_HTML>>, Plain),
    Entry(<<INDEX_MD>>, Plain) }

Configs == {DefaultPaths, NestedPaths}
Tree(paths) == IF paths = DefaultPaths THEN DefaultTree ELSE NestedTree

\* the lists the glob can return: distinct discovered files, in any order
RECURSIVE Listings(_, _)
Listings(tree, n) ==
  IF n = 0 THEN {<<>>}
  ELSE LET shorter == Listings(tree, n - 1)
       IN shorter \cup
          { Append(l, e) : <<l, e>> \in
              { le \in shorter \X tree :
                  /\ Len(le[1]) = n - 1
                  /\ \A k \in DOMAIN le[1] : le[1][k].path # le[2].path } }

(***************************************************************************)
(* State of one run of processContent.                                     *)
(***************************************************************************)
VARIABLES
  config,   \* config.paths
  disk,     \* the content of each discovered file
  files,    \* the array returned by glob
  idx,      \* position of the for-of loop in files (1-based)
  posts, pages, drafts,
  built,    \* what each iteration did: the file, its itemType, the result
  pc,       \* "loop" inside the for-of loop, "done" once siteContent is returned
  arg,      \* arguments of a direct call of the two resolvers
  ret       \* their results

vars == <<config, disk, files, idx, posts, pages, drafts, built, pc, arg, ret>>

NoArg == [itemPath |-> <<>>, frontMatter |-> EmptyFrontMatter, itemType |-> "none"]
NoRet == [permalink |-> <<>>, outputPath |-> <<>>]

Init ==
  /\ config \in Configs
  /\ \E l \in Listings({e \in Tree(config) : Discovered(e.path, config)}, MaxFiles) :
       /\ files = [k \in DOMAIN l |-> l[k].path]
       /\ disk = [f \in {l[k].path : k \in DOMAIN l} |->
                    (CHOOSE e \in Range(l) : e.path = f).content]
  /\ idx = 1
  /\ posts = <<>>
  /\ pages = <<>>
  /\ drafts = <<>>
  /\ built = <<>>
  /\ pc = "loop"
  /\ arg = NoArg
  /\ ret = NoRet

\* the for-of body without the catch of processItem: a file whose read or
\* parse throws ends the loop
ProcessFileAbortOnThrow ==
  /\ pc = "loop"
  /\ idx <= Len(files)
  /\ LET filePath == files[idx]
         itemType == ClassifyFile(filePath, config)
         processedItem ==
           IF itemType = "skip" THEN <<>>
           ELSE processItem(filePath,
                            IF itemType = "root_page" THEN "page" ELSE itemType,
                            disk[filePath], config)
         target == IF processedItem = <<>> THEN "none"
                   ELSE Collection(processedItem[1], itemType)
         aborted == disk[filePath].fails # "none"
     IN /\ drafts' = IF target = "drafts" THEN Append(drafts, processedItem[1]) ELSE drafts
        /\ posts' = IF target = "posts" THEN Append(posts, processedItem[1]) ELSE posts
        /\ pages' = IF target = "pages" THEN Append(pages, processedItem[1]) ELSE pages
        /\ built' = Append(built, [filePath |-> filePath, itemType |-> itemType,
                                   processedItem |-> processedItem])
        /\ idx' = IF aborted THEN Len(files) + 1 ELSE idx + 1
  /\ UNCHANGED <<config, disk, files, pc, arg, ret>>

\* one iteration of the for-of loop: classify, processItem, push
ProcessFile ==
  /\ pc = "loop"
  /\ idx <= Len(files)
  /\ LET filePath == files[idx]
         itemType == ClassifyFile(filePath, config)
         processedItem ==
           IF itemType = "skip" THEN <<>>
           ELSE processItem(filePath,
                            IF itemType = "root_page" THEN "page" ELSE itemType,
                            disk[filePath], config)
         target == IF processedItem = <<>> THEN "none"
                   ELSE Collection(processedItem[1], itemType)
     IN /\ drafts' = IF target = "drafts" THEN Append(drafts, processedItem[1]) ELSE drafts
        /\ posts' = IF target = "posts" THEN Append(posts, processedItem[1]) ELSE posts
        /\ pages' = IF target = "pages" THEN Append(pages, processedItem[1]) ELSE pages
        /\ built' = Append(built, [filePath |-> filePath, itemType |-> itemType,
                                   processedItem |-> processedItem])
  /\ idx' = idx + 1
  /\ UNCHANGED <<config, disk, files, pc, arg, ret>>

\* the sorts and the return without waiting for the end of the loop
SortAndReturnEarly ==
  /\ pc = "loop"
  /\ posts' = sort(posts, [j \in DOMAIN posts, k \in DOMAIN posts |->
                               ByDateDescending(posts[j], posts[k])])
  /\ pages' = sort(pages, [j \in DOMAIN pages, k \in DOMAIN pages |->
                               ByPermalink(pages[j], pages[k])])
  /\ drafts' = sort(drafts, [j \in DOMAIN drafts, k \in DOMAIN drafts |->
                                 ByPermalink(drafts[j], drafts[k])])
  /\ pc' = "done"
  /\ UNCHANGED <<config, disk, files, idx, built, arg, ret>>

\* after the loop: the three sorts, then siteContent is returned
SortAndReturn ==
  /\ pc = "loop"
  /\ idx > Len(files)
  /\ posts' = sort(posts, [j \in DOMAIN posts, k \in DOMAIN posts |->
                               ByDateDescending(posts[j], posts[k])])
  /\ pages' = sort(pages, [j \in DOMAIN pages, k \in DOMAIN pages |->
                               ByPermalink(pages[j], pages[k])])
  /\ drafts' = sort(drafts, [j \in DOMAIN drafts, k \in DOMAIN drafts |->
                                 ByPermalink(drafts[j], drafts[k])])
  /\ pc' = "done"
  /\ UNCHANGED <<config, disk, files, idx, built, arg, ret>>

Next == ProcessFile \/ SortAndReturn

Spec == Init /\ [][Next]_vars

(***************************************************************************)
(* The two resolvers called directly: generatePermalink on an item path,   *)
(* a front matter and an item type, then generateOutputPath on the result; *)
(* generateOutputPath alone on a permalink that carries an extension.      *)
(***************************************************************************)
DirNames == {PAGES, SITE, DOCS, SUB}
Stems == {INDEX, <<"I","n","d","e","x">>, <<"a","b","o","u","t">>, <<"2","0","2","4","-","0","1","-","1","5","-","h","e","l","l","o","-","w","o","r","l","d">>, <<"2","0","2","4","-","0","1","-","1","5","-","2","0","2","4","-","0","1","-","1","6","-","a">>, MY_POST, <<"#">>, <<"a",".","b">>}
Exts == {MD, <<".","M","D">>, HTML, <<>>}
Slugs == {NoSlug, SlugString(<<>>), SlugString(INDEX), SlugString(MY_POST),
          SlugString(DATED_SLUG), SlugString(<<"!">>)}
ItemTypes == {"post", "page", "draft"}
ExtensionPermalinks == {<<"/","f","e","e","d",".","x","m","l">>, <<"/","b","l","o","g","/","a",".","h","t","m","l">>, <<"/","D","o","c","s","/","v","1",".","0">>}

RECURSIVE DirLists(_)
DirLists(n) ==
  IF n = 0 THEN {<<>>}
  ELSE DirLists(n - 1) \cup
       {Append(l, d) : <<l, d>> \in {ld \in DirLists(n - 1) \X DirNames : Len(ld[1]) = n - 1}}

ResolverInputs ==
  { [itemPath |-> join(Append(dirs, stem \o ext), sep),
     frontMatter |-> [EmptyFrontMatter EXCEPT !.slug = slug],
     itemType |-> itemType] :
    <<dirs, stem, ext, slug, itemType>> \in DirLists(MaxDepth) \X Stems \X Exts \X Slugs \X ItemTypes }

ResolverInit ==
  /\ config \in Configs
  /\ disk = <<>>
  /\ files = <<>>
  /\ idx = 1
  /\ posts = <<>>
  /\ pages = <<>>
  /\ drafts = <<>>
  /\ built = <<>>
  /\ \/ /\ arg \in ResolverInputs
        /\ ret = NoRet
        /\ pc = "resolve"
     \/ /\ arg = NoArg
        /\ \E permalink \in ExtensionPermalinks : ret = [NoRet EXCEPT !.permalink = permalink]
        /\ pc = "permalink"

CallGeneratePermalink ==
  /\ pc = "resolve"
  /\ ret' = [ret EXCEPT !.permalink =
               generatePermalink(arg.itemPath, arg.frontMatter, arg.itemType, config)]
  /\ pc' = "permalink"
  /\ UNCHANGED <<config, disk, files, idx, posts, pages, drafts, built, arg>>

CallGenerateOutputPath ==
  /\ pc = "permalink"
  /\ ret' = [ret EXCEPT !.outputPath = generateOutputPath(ret.permalink, config)]
  /\ pc' = "outputPath"
  /\ UNCHANGED <<config, disk, files, idx, posts, pages, drafts, built, arg>>

ResolverNext == CallGeneratePermalink \/ CallGenerateOutputPath

ResolverSpec == ResolverInit /\ [][ResolverNext]_vars

(***************************************************************************)
(* Vocabulary of the properties.                                           *)
(***************************************************************************)
Ids(collection) == {collection[k].id : k \in DOMAIN collection}
Members(collection) == {collection[k] : k \in DOMAIN collection}
IdOf(f) == relative(config.source, f)
Absent(f) == IdOf(f) \notin Ids(posts) \cup Ids(pages) \cup Ids(drafts)
IsMarkdown(f) == endsWith(f, MD)

\* reading (and, for Markdown, parsing) file f throws
Thrown(f) == IF IsMarkdown(f) THEN disk[f].fails # "none" ELSE disk[f].fails = "read"

\* the front matter the builder holds for file f once it has been read
Seen(f) == IF IsMarkdown(f) THEN NormalizeFrontMatter(disk[f].fm) ELSE EmptyFrontMatter

\* the date of a front matter is absent, not a date value or an invalid date
LacksDate(fm) == fm.date.k # "Date" \/ ~fm.date.valid

\* classification by path-component containment, in the priority order
ContainmentType(f) ==
  IF Inside(f, config.posts) THEN "post"
  ELSE IF Inside(f, config.drafts) THEN "draft"
  ELSE IF Inside(f, config.pages) THEN "page"
  ELSE IF dirname(f) = config.source THEN "page"
  ELSE "skip"

Returned == pc = "done"

(***************************************************************************)
(* C1: every discovered file is classified by the first rule that matches, *)
(* posts root, drafts root, pages root, then parent directory = source     *)
(* root, where being under a root is path-component containment; a file    *)
(* that matches no rule is in no collection.                               *)
(***************************************************************************)
C1_ClassifiedByContainment ==
  \A k \in DOMAIN built :
    LET b == built[k]
        itemType == IF b.itemType = "root_page" THEN "page" ELSE b.itemType
    IN /\ itemType = ContainmentType(b.filePath)
       /\ itemType = "skip" => Absent(b.filePath)

(***************************************************************************)
(* C2: in the returned SiteContent every built item is in exactly one      *)
(* collection: drafts iff isDraft, else posts iff classified as post, else *)
(* pages; no id is in two collections; no post is a draft.                 *)
(***************************************************************************)
C2_Partition ==
  Returned =>
    /\ \A k \in DOMAIN built :
         built[k].processedItem # <<>> =>
           LET item == built[k].processedItem[1]
               inPosts == item \in Members(posts)
               inPages == item \in Members(pages)
               inDrafts == item \in Members(drafts)
           IN /\ inDrafts <=> item.isDraft
              /\ inPosts <=> (~item.isDraft /\ built[k].itemType = "post")
              /\ inPages <=> (~item.isDraft /\ built[k].itemType # "post")
    /\ Ids(posts) \cap Ids(pages) = {}
    /\ Ids(posts) \cap Ids(drafts) = {}
    /\ Ids(pages) \cap Ids(drafts) = {}
    /\ \A k \in DOMAIN posts : ~posts[k].isDraft

C2_Witness ==
  /\ Returned
  /\ \E k \in DOMAIN drafts : drafts[k].isDraft
  /\ posts # <<>> \/ pages # <<>>

(***************************************************************************)
(* C3: a file classified as post whose front-matter date is absent, not a  *)
(* date value or invalid is in no collection; every item of posts carries  *)
(* a valid date, equal to the date of its front matter.                    *)
(***************************************************************************)
C3_PostsNeedDate ==
  Returned =>
    /\ \A k \in DOMAIN built :
         (/\ built[k].itemType = "post"
          /\ ~Thrown(built[k].filePath)
          /\ LacksDate(Seen(built[k].filePath))) => Absent(built[k].filePath)
    /\ \A k \in DOMAIN posts :
         /\ ~LacksDate(posts[k].frontMatter)
         /\ posts[k].date = posts[k].frontMatter.date.t

C3_Witness ==
  /\ Returned
  /\ posts # <<>>
  /\ \E k \in DOMAIN built :
       /\ built[k].itemType = "post"
       /\ ~Thrown(built[k].filePath)
       /\ Seen(built[k].filePath).published # "false"
       /\ LacksDate(Seen(built[k].filePath))
       /\ Absent(built[k].filePath)

(***************************************************************************)
(* C4: a post or page whose front matter has published = false is in no    *)
(* collection; a draft is never dropped for the published flag; an item    *)
(* whose published is absent or anything but false is not dropped by the   *)
(* publish filter.                                                         *)
(***************************************************************************)
C4_PublishFilter ==
  Returned =>
    \A k \in DOMAIN built :
      LET f == built[k].filePath
          fm == Seen(f)
          otherDrop == \/ Thrown(f)
                       \/ fm.slug.k = "number"
                       \/ built[k].itemType = "post" /\ LacksDate(fm)
      IN /\ (built[k].itemType # "draft" /\ ~Thrown(f) /\ fm.published = "false")
              => Absent(f)
         /\ (built[k].itemType = "draft" /\ ~otherDrop) => IdOf(f) \in Ids(drafts)
         /\ (fm.published # "false" /\ ~otherDrop) => ~Absent(f)

C4_Witness ==
  /\ Returned
  /\ \E k \in DOMAIN built :
       /\ built[k].itemType \in {"post", "page"}
       /\ ~Thrown(built[k].filePath)
       /\ Seen(built[k].filePath).published = "false"
       /\ Absent(built[k].filePath)
  /\ \E k \in DOMAIN drafts : drafts[k].frontMatter.published = "false"

(***************************************************************************)
(* C5: in the returned SiteContent posts is sorted non-increasing by date, *)
(* pages and drafts non-decreasing by permalink.                           *)
(***************************************************************************)
Adjacent(collection) == 1..(Len(collection) - 1)
ByteOrder(a, b) == byteCompare(a.permalink, b.permalink)
LocaleOrder(a, b) == localeCompare(a.permalink, b.permalink)
NewestFirst(collection) ==
  \A k \in Adjacent(collection) : collection[k].date >= collection[k + 1].date
SortedByteWise(collection) ==
  \A k \in Adjacent(collection) : ByteOrder(collection[k], collection[k + 1]) <= 0
SortedByLocale(collection) ==
  \A k \in Adjacent(collection) : LocaleOrder(collection[k], collection[k + 1]) <= 0
PlainPermalinks(collection) ==
  \A k \in DOMAIN collection :
    Range(collection[k].permalink) \subseteq Lower \cup Digit \cup {"-", "/"}

\* the order of pages and drafts is the byte-wise order of the permalinks
C5_SortedByteWise ==
  Returned =>
    /\ NewestFirst(posts)
    /\ SortedByteWise(pages)
    /\ SortedByteWise(drafts)

\* the order of pages and drafts is that of localeCompare, which is the
\* byte-wise order when the permalinks consist of a-z, 0-9, "-" and "/"
C5_SortedByLocale ==
  Returned =>
    /\ NewestFirst(posts)
    /\ SortedByLocale(pages)
    /\ SortedByLocale(drafts)
    /\ PlainPermalinks(pages) => SortedByteWise(pages)
    /\ PlainPermalinks(drafts) => SortedByteWise(drafts)

C5_Witness ==
  /\ Returned
  /\ Len(pages) = 2
  /\ LocaleOrder(pages[1], pages[2]) < 0
  /\ ByteOrder(pages[1], pages[2]) > 0
  /\ built[1].processedItem = <<pages[2]>>

(***************************************************************************)
(* C6: the permalink of every item of posts, pages and drafts is non-empty *)
(* and begins with "/"; it is "/" or a sequence of segments of a-z, 0-9    *)
(* and "-", each followed by "/".                                          *)
(***************************************************************************)
PlainChars == Lower \cup Digit \cup {"-"}
WellFormed(permalink) ==
  \/ permalink = sep
  \/ /\ startsWith(permalink, sep)
     /\ endsWith(permalink, sep)
     /\ \A k \in DOMAIN permalink : permalink[k] \in PlainChars \cup {"/"}
     /\ \A k \in 1..(Len(permalink) - 1) : ~(permalink[k] = "/" /\ permalink[k + 1] = "/")
Items == Members(posts) \cup Members(pages) \cup Members(drafts)
PlainDirectories(item) ==
  Range(parse(item.relativePath).dir) \subseteq PlainChars \cup {"/"}

Resolved == pc \in {"permalink", "outputPath"} /\ arg # NoArg
ArgSlug == Slug(arg.itemPath, arg.frontMatter, arg.itemType)
ArgUrlPath == UrlPath(arg.itemPath, ArgSlug, arg.itemType, config)
ArgExt == extname(arg.itemPath)
SlashCase ==
  \/ ArgSlug = INDEX
  \/ toLowerCase(ArgExt) = MD
  \/ ArgExt = <<>> /\ ArgSlug # INDEX

C7_TrailingSlashPolicy ==
  Resolved =>
    /\ (ArgUrlPath # sep /\ SlashCase) =>
         /\ endsWith(ret.permalink, sep)
         /\ ret.permalink \in {ArgUrlPath, ArgUrlPath \o sep}
    /\ (ArgUrlPath # sep /\ ~SlashCase) => ret.permalink = ArgUrlPath
    /\ ArgUrlPath = sep => ret.permalink = sep

C7_Witness ==
  /\ Resolved
  /\ ArgExt = <<>>
  /\ ArgSlug # INDEX
  /\ ~endsWith(ArgUrlPath, sep)
  /\ ret.permalink = ArgUrlPath \o sep

(***************************************************************************)
(* C8: the permalink of a Markdown post is /blog/<slug>/ and that of a     *)
(* Markdown draft /drafts/<slug>/, whatever the directory; the slug is the *)
(* slugified front-matter slug when one is set, else the slugified stem of *)
(* the file name, for a post without one leading YYYY-MM-DD- prefix.       *)
(***************************************************************************)
ArgStem ==
  LET base == basename(arg.itemPath)
  IN SubSeq(base, 1, Len(base) - Len(ArgExt))
HasDatePrefix(stem) ==
  /\ Len(stem) >= 11
  /\ \A k \in 1..11 : IF k \in {5, 8, 11} THEN stem[k] = "-" ELSE stem[k] \in Digit
ExpectedSlug ==
  IF arg.frontMatter.slug.k = "string" /\ arg.frontMatter.slug.v # <<>>
  THEN slugify(arg.frontMatter.slug.v)
  ELSE IF arg.itemType = "post" /\ HasDatePrefix(ArgStem)
       THEN slugify(SubSeq(ArgStem, 12, Len(ArgStem)))
  ELSE slugify(ArgStem)
Section == IF arg.itemType = "post" THEN BLOG ELSE DRAFTS
MarkdownPostOrDraft ==
  Resolved /\ arg.itemType \in {"post", "draft"} /\ toLowerCase(ArgExt) = MD

\* the permalink is /<section>/<slug>/ for every slug
C8_SectionSlug ==
  MarkdownPostOrDraft => ret.permalink = sep \o Section \o sep \o ExpectedSlug \o sep

\* the permalink is /<section>/<slug>/ for a non-empty slug and /<section>/
\* for an empty one
C8_SectionSlugNonEmpty ==
  MarkdownPostOrDraft =>
    ret.permalink = IF ExpectedSlug = <<>> THEN sep \o Section \o sep
                    ELSE sep \o Section \o sep \o ExpectedSlug \o sep

C8_Witness ==
  /\ MarkdownPostOrDraft
  /\ arg.itemType = "post"
  /\ arg.frontMatter.slug = NoSlug
  /\ HasDatePrefix(ArgStem)
  /\ Len(Components(arg.itemPath)) > 1
  /\ ret.permalink = sep \o BLOG \o sep \o <<"h","e","l","l","o","-","w","o","r","l","d">> \o sep

(***************************************************************************)
(* C9: the permalink segments of a page are the directory components of    *)
(* the file relative to the source root, without the one component that is *)
(* the pages root, followed by the slug unless the slug is index.          *)
(***************************************************************************)
\* the directories of file f below the source root, the pages root taken out
PageDirectories(f) ==
  LET dirs == Components(relative(config.source, dirname(f)))
      n == Len(Components(relative(config.source, config.pages)))
  IN IF Inside(f, config.pages)
     THEN SubSeq(dirs, 1, n - 1) \o SubSeq(dirs, n + 1, Len(dirs))
     ELSE dirs

C9_PageSegments ==
  \A k \in DOMAIN built :
    (built[k].itemType \in {"page", "root_page"} /\ built[k].processedItem # <<>>) =>
      LET item == built[k].processedItem[1]
          slug == Slug(item.relativePath, item.frontMatter, "page")
      IN Components(item.permalink) =
           PageDirectories(built[k].filePath)
             \o (IF slug = INDEX \/ slug = <<>> THEN <<>> ELSE <<slug>>)

(***************************************************************************)
(* C10: generateOutputPath depends on the permalink alone: a permalink     *)
(* that ends with "/" maps to <output>/<path>/index.html, one whose last   *)
(* segment has an extension to <output>/<path>, any other to               *)
(* <output>/<path>.html; the result is an absolute path.                   *)
(***************************************************************************)
HasExtension(permalink) ==
  LET last == basename(permalink)
  IN \E k \in 2..Len(last) : last[k] = "."

C10_OutputPath ==
  pc = "outputPath" =>
    /\ startsWith(ret.outputPath, sep)
    /\ ret.outputPath =
         IF endsWith(ret.permalink, sep) THEN config.output \o ret.permalink \o INDEX \o HTML
         ELSE IF HasExtension(ret.permalink) THEN config.output \o ret.permalink
         ELSE config.output \o ret.permalink \o HTML

C10_Witness ==
  /\ pc = "outputPath"
  /\ HasExtension(ret.permalink)
  /\ ret.outputPath = config.output \o ret.permalink

(***************************************************************************)
(* C11: a file whose read or parse fails is skipped alone: it is in no     *)
(* collection, every file of the list is still iterated, and the returned  *)
(* collections are those of the same list without the failing file.        *)
(***************************************************************************)
\* what one iteration builds for file f, and the collection it pushes to
ItemOf(f) ==
  LET itemType == ClassifyFile(f, config)
  IN IF itemType = "skip" THEN <<>>
     ELSE processItem(f, IF itemType = "root_page" THEN "page" ELSE itemType,
                      disk[f], config)

TargetOf(f) ==
  IF ItemOf(f) = <<>> THEN "none" ELSE Collection(ItemOf(f)[1], ClassifyFile(f, config))

\* the items a list of files contributes to one collection, in list order
RECURSIVE Gather(_, _)
Gather(list, target) ==
  IF list = <<>> THEN <<>>
  ELSE (IF TargetOf(Head(list)) = target THEN ItemOf(Head(list)) ELSE <<>>)
       \o Gather(Tail(list), target)

\* the SiteContent of a run over the given list
RunOn(list) ==
  LET ps == Gather(list, "posts")
      gs == Gather(list, "pages")
      ds == Gather(list, "drafts")
  IN [posts |-> sort(ps, [j \in DOMAIN ps, k \in DOMAIN ps |-> ByDateDescending(ps[j], ps[k])]),
      pages |-> sort(gs, [j \in DOMAIN gs, k \in DOMAIN gs |-> ByPermalink(gs[j], gs[k])]),
      drafts |-> sort(ds, [j \in DOMAIN ds, k \in DOMAIN ds |-> ByPermalink(ds[j], ds[k])])]

Without(list, f) == SelectSeq(list, LAMBDA g : g # f)

C11_FailureIsolation ==
  /\ \A k \in DOMAIN built :
       Thrown(built[k].filePath) => built[k].processedItem = <<>>
  /\ Returned =>
       /\ Len(built) = Len(files)
       /\ \A k \in DOMAIN files :
            Thrown(files[k]) =>
              /\ Absent(files[k])
              /\ [posts |-> posts, pages |-> pages, drafts |-> drafts]
                   = RunOn(Without(files, files[k]))

C11_Witness ==
  /\ Returned
  /\ \E k \in DOMAIN files :
       /\ Thrown(files[k])
       /\ Absent(files[k])
       /\ \E j \in DOMAIN files : j # k /\ ~Absent(files[j])

(***************************************************************************)
(* processItem called directly on one file: a path under one of the        *)
(* content roots, an item type and the content of the file.  The names     *)
(* carry the extensions the glob passes and extensions it does not.        *)
(***************************************************************************)
ItemExts == {MD, <<".","M","D">>, HTML, <<".","H","T","M","L">>, <<".","t","x","t">>,
             <<".","h","t","m">>, <<".","m","a","r","k","d","o","w","n">>, <<>>}
ItemContents == {Plain, Unreadable, Malformed,
                 Content(DateObject(1), "absent", NoSlug),
                 Content(DateObject(1), "false", SlugString(MY_POST))}
ItemRoots == [post |-> POSTS, page |-> PAGES, draft |-> DRAFTS]

ItemInputs ==
  { [filePath |-> File(<<ItemRoots[itemType], <<"n","o","t","e","s">> \o ext>>),
     itemType |-> itemType,
     content |-> content] :
    <<ext, itemType, content>> \in ItemExts \X ItemTypes \X ItemContents }

ItemInit ==
  /\ config = DefaultPaths
  /\ disk = <<>>
  /\ files = <<>>
  /\ idx = 1
  /\ posts = <<>>
  /\ pages = <<>>
  /\ drafts = <<>>
  /\ built = <<>>
  /\ arg \in ItemInputs
  /\ ret = <<>>
  /\ pc = "item"

CallProcessItem ==
  /\ pc = "item"
  /\ ret' = processItem(arg.filePath, arg.itemType, arg.content, config)
  /\ pc' = "processed"
  /\ UNCHANGED <<config, disk, files, idx, posts, pages, drafts, built, arg>>

ItemNext == CallProcessItem

ItemSpec == ItemInit /\ [][ItemNext]_vars

(***************************************************************************)
(* C12: processItem takes the file type from the extension: .md gives a    *)
(* markdown item, .html an html item, and a file with any other extension  *)
(* gives no item.                                                          *)
(***************************************************************************)
FileExtension == toLowerCase(extname(arg.filePath))

RawScalars == {Str(<<"a">>), Str(<<>>), Num(0), Num(17), Bool(FALSE), Bool(TRUE), Null}
RawLists ==
  {NoList, Array(<<>>), Array(<<Str(<<"a">>)>>), Array(<<Str(<<"a">>), Num(17)>>),
   Array(<<Bool(FALSE), Null>>)}
    \cup {Scalar(v) : v \in RawScalars}
RawDates == {NoDate, DateObject(1), DateString(2), BadDateString, FalsyDate}

RawFrontMatters ==
  { [date |-> date, published |-> published, slug |-> slug,
     tags |-> tags, categories |-> categories] :
    <<date, published, slug, tags, categories>> \in
      RawDates \X {"absent", "false"} \X {NoSlug, SlugNumber} \X RawLists \X RawLists }

NormalizerInit ==
  /\ config = DefaultPaths
  /\ disk = <<>>
  /\ files = <<>>
  /\ idx = 1
  /\ posts = <<>>
  /\ pages = <<>>
  /\ drafts = <<>>
  /\ built = <<>>
  /\ arg \in RawFrontMatters
  /\ ret = EmptyFrontMatter
  /\ pc = "raw"

CallNormalizeFrontMatter ==
  /\ pc = "raw"
  /\ ret' = NormalizeFrontMatter(arg)
  /\ pc' = "normalized"
  /\ UNCHANGED <<config, disk, files, idx, posts, pages, drafts, built, arg>>

NormalizerNext == CallNormalizeFrontMatter

NormalizerSpec == NormalizerInit /\ [][NormalizerNext]_vars

(***************************************************************************)
(* C13: after the cleaning, date is absent or a valid date value; tags and *)
(* categories are each absent or a sequence of strings, a present scalar   *)
(* (falsy ones included) having become a one-element sequence; every other *)
(* key keeps its raw value.  A null counts as absent.                      *)
(***************************************************************************)
CleanDate(d) == d.k \in {"absent", "undefined"} \/ (d.k = "Date" /\ d.valid)

CleanList(raw, clean) ==
  /\ raw.k = "absent" => clean = raw
  /\ raw.k = "scalar" /\ raw.v # Null =>
       clean.k = "array" /\ Len(clean.a) = 1 /\ clean.a[1].t = "string"
  /\ \/ clean.k = "absent"
     \/ clean = Scalar(Null)
     \/ clean.k = "array" /\ \A i \in DOMAIN clean.a : clean.a[i].t = "string"

C13_Normalized ==
  pc = "normalized" =>
    /\ CleanDate(ret.date)
    /\ CleanList(arg.tags, ret.tags)
    /\ CleanList(arg.categories, ret.categories)
    /\ ret.published = arg.published
    /\ ret.slug = arg.slug

(***************************************************************************)
(* Configuration loading.  A SiteConfig is a record of scalars; the key    *)
(* of a user configuration that is not given is Undefined.                 *)
(***************************************************************************)
LAYOUTS == <<"l","a","y","o","u","t","s">>
INCLUDES == <<"i","n","c","l","u","d","e","s">>
ASSETS == <<"a","s","s","e","t","s">>
PathKeys == {"source", "output", "posts", "pages", "drafts", "layouts", "includes", "assets"}

DEFAULT_CONFIG ==
  [title |-> Str(<<"M","y"," ","A","w","e","s","o","m","e"," ","H","c","g","B","l","o","g">>),
   baseUrl |-> Str(<<"/">>),
   hasPaths |-> TRUE,
   paths |-> [source |-> Str(<<".">>), output |-> Str(OUTPUT), posts |-> Str(POSTS),
              pages |-> Str(PAGES), drafts |-> Str(DRAFTS), layouts |-> Str(LAYOUTS),
              includes |-> Str(INCLUDES), assets |-> Str(ASSETS)],
   pagination |-> "default"]

\* no key given: the object {}
NoPaths == [key \in PathKeys |-> Undefined]
EmptyConfig ==
  [title |-> Undefined, baseUrl |-> Undefined, hasPaths |-> FALSE, paths |-> NoPaths,
   pagination |-> "absent"]

\* { ...a, ...b } on one key: b wins wherever it has the key
Spread(a, b) == IF b = Undefined THEN a ELSE b

IsString(v) == v.t = "string"

\* the merge of mergeConfigs, before its validation
Merged(userConfig, defaultConfig) ==
  [title |-> Spread(defaultConfig.title, userConfig.title),
   baseUrl |-> Spread(defaultConfig.baseUrl, userConfig.baseUrl),
   hasPaths |-> TRUE,
   paths |-> IF userConfig.hasPaths
             THEN [key \in PathKeys |-> Spread(defaultConfig.paths[key], userConfig.paths[key])]
             ELSE defaultConfig.paths,
   pagination |-> IF userConfig.pagination # "absent" THEN "merged"
                  ELSE defaultConfig.pagination]

\* mergeConfigs without its validation block
mergeConfigsUnvalidated(userConfig, defaultConfig) ==
  IF ~userConfig.hasPaths /\ ~defaultConfig.hasPaths
  THEN [threw |-> TRUE, value |-> EmptyConfig]
  ELSE [threw |-> FALSE, value |-> Merged(userConfig, defaultConfig)]

mergeConfigs(userConfig, defaultConfig) ==
  LET merged == Merged(userConfig, defaultConfig)
  IN IF ~userConfig.hasPaths /\ ~defaultConfig.hasPaths
       THEN [threw |-> TRUE, value |-> EmptyConfig]
     ELSE IF ~Truthy(merged.title) \/ ~IsString(merged.title)
       THEN [threw |-> TRUE, value |-> EmptyConfig]
     ELSE IF ~Truthy(merged.baseUrl) \/ ~IsString(merged.baseUrl)
       THEN [threw |-> TRUE, value |-> EmptyConfig]
     ELSE IF \E key \in PathKeys : ~Truthy(merged.paths[key])
       THEN [threw |-> TRUE, value |-> EmptyConfig]
     ELSE [threw |-> FALSE, value |-> merged]

\* the path resolution of loadConfig: source and output against baseDir, the
\* other string entries against the resolved source
ResolvePaths(paths, baseDir) ==
  LET sourceDir == resolve(baseDir, paths.source.s)
  IN [key \in PathKeys |->
        IF key = "source" THEN Str(sourceDir)
        ELSE IF key = "output" THEN Str(resolve(baseDir, paths.output.s))
        ELSE IF IsString(paths[key]) THEN Str(resolve(sourceDir, paths[key].s))
        ELSE paths[key]]

\* loadConfig(configPath, baseDir) on a configuration file that is missing
\* (ENOENT), unreadable for another reason, not JSON, or a JSON object
loadConfig(file, baseDir) ==
  LET fromDefaults == mergeConfigs(EmptyConfig, DEFAULT_CONFIG)
      finalConfig == mergeConfigs(file.userConfig, DEFAULT_CONFIG)
  IN IF file.state = "missing" THEN fromDefaults
     ELSE IF file.state = "unreadable" THEN [threw |-> TRUE, value |-> EmptyConfig]
     ELSE IF file.state = "unparseable" THEN [threw |-> TRUE, value |-> EmptyConfig]
     ELSE IF finalConfig.threw THEN [threw |-> TRUE, value |-> EmptyConfig]
     ELSE IF ~IsString(finalConfig.value.paths.source)
               \/ ~IsString(finalConfig.value.paths.output)
       THEN [threw |-> TRUE, value |-> EmptyConfig]
     ELSE [threw |-> FALSE,
           value |-> [finalConfig.value EXCEPT
                        !.paths = ResolvePaths(finalConfig.value.paths, baseDir)]]

(***************************************************************************)
(* main: loadConfig, then processContent; an error is caught and the       *)
(* process exits with status 1.                                            *)
(***************************************************************************)
ConfigValues == {Undefined, Str(<<>>), Str(<<"c","o","n","t","e","n","t">>),
                 Str(<<"/","s","r","v","/","s","i","t","e">>), Num(5), Null}

\* the paths objects a configuration file gives: one key set, or two
UserPaths ==
  { [NoPaths EXCEPT ![key] = v] : <<key, v>> \in PathKeys \X ConfigValues }
    \cup { [NoPaths EXCEPT !.source = Str(<<".",".","/","s","r","c">>), !.posts = v] :
           v \in ConfigValues }

UserConfigs ==
  { [title |-> title, baseUrl |-> baseUrl, hasPaths |-> hasPaths,
     paths |-> IF hasPaths THEN paths ELSE NoPaths, pagination |-> pagination] :
    <<title, baseUrl, hasPaths, paths, pagination>> \in
      {Undefined, Str(<<>>), Str(<<"T">>), Num(5)} \X {Undefined, Str(<<>>), Str(<<"/">>)}
        \X BOOLEAN \X UserPaths \X {"absent", "user"} }

ConfigFiles ==
  { [state |-> state, userConfig |-> EmptyConfig] :
    state \in {"missing", "unreadable", "unparseable"} }
    \cup { [state |-> "json", userConfig |-> userConfig] : userConfig \in UserConfigs }

NoResult == [threw |-> FALSE, value |-> EmptyConfig, started |-> FALSE, exitCode |-> 0]

ConfigInit ==
  /\ config = DefaultPaths
  /\ disk = <<>>
  /\ files = <<>>
  /\ idx = 1
  /\ posts = <<>>
  /\ pages = <<>>
  /\ drafts = <<>>
  /\ built = <<>>
  /\ arg \in ConfigFiles
  /\ ret = NoResult
  /\ pc = "main"

\* const config = await loadConfig('config.json', exampleSiteDir)
CallLoadConfig ==
  /\ pc = "main"
  /\ LET loaded == loadConfig(arg, BaseDir)
     IN /\ ret' = [ret EXCEPT !.threw = loaded.threw, !.value = loaded.value]
        /\ pc' = IF loaded.threw THEN "caught" ELSE "loaded"
  /\ UNCHANGED <<config, disk, files, idx, posts, pages, drafts, built, arg>>

\* const siteContent = await processContent(config)
StartProcessContent ==
  /\ pc = "loaded"
  /\ ret' = [ret EXCEPT !.started = TRUE]
  /\ pc' = "processContent"
  /\ UNCHANGED <<config, disk, files, idx, posts, pages, drafts, built, arg>>

\* catch (error) { ...; process.exit(1) }
ExitOnError ==
  /\ pc = "caught"
  /\ ret' = [ret EXCEPT !.exitCode = 1]
  /\ pc' = "exited"
  /\ UNCHANGED <<config, disk, files, idx, posts, pages, drafts, built, arg>>

ConfigNext == CallLoadConfig \/ StartProcessContent \/ ExitOnError

ConfigSpec == ConfigInit /\ [][ConfigNext]_vars

(***************************************************************************)
(* C14: whenever loadConfig returns, every entry of config.paths is a      *)
(* non-empty absolute path, also when the configuration file is missing    *)
(* and the defaults are used.                                              *)
(***************************************************************************)
IsAbsolutePath(v) == IsString(v) /\ v.s # <<>> /\ v.s[1] = "/"

C14_AbsolutePaths ==
  pc \in {"loaded", "processContent"} =>
    \A key \in PathKeys : IsAbsolutePath(ret.value.paths[key])

(***************************************************************************)
(* C15: when the configuration file is unreadable or unparseable, or when  *)
(* title, baseUrl or an entry of paths is missing or empty after the merge *)
(* with the defaults, loadConfig throws, processContent is never started   *)
(* and main exits with status 1.                                           *)
(***************************************************************************)
MissingOrEmpty(v) == v \in {Undefined, Null, Str(<<>>)}

\* the value of a required field once the user configuration lies over the defaults
TitleAfterMerge == Spread(DEFAULT_CONFIG.title, arg.userConfig.title)
BaseUrlAfterMerge == Spread(DEFAULT_CONFIG.baseUrl, arg.userConfig.baseUrl)
PathAfterMerge(key) ==
  IF arg.userConfig.hasPaths
  THEN Spread(DEFAULT_CONFIG.paths[key], arg.userConfig.paths[key])
  ELSE DEFAULT_CONFIG.paths[key]

RequiredFieldMissing ==
  /\ arg.state = "json"
  /\ \/ MissingOrEmpty(TitleAfterMerge)
     \/ MissingOrEmpty(BaseUrlAfterMerge)
     \/ \E key \in PathKeys : MissingOrEmpty(PathAfterMerge(key))

FatalConfiguration ==
  arg.state \in {"unreadable", "unparseable"} \/ RequiredFieldMissing

C15_FatalConfiguration ==
  FatalConfiguration =>
    /\ pc \in {"main", "caught", "exited"}
    /\ pc # "main" => ret.threw
    /\ ~ret.started
    /\ pc = "exited" => ret.exitCode = 1

C15_Witness ==
  /\ pc = "exited"
  /\ RequiredFieldMissing
  /\ \E key \in PathKeys : MissingOrEmpty(PathAfterMerge(key))
  /\ ret.threw
  /\ ret.exitCode = 1

(***************************************************************************)
(* C16: the date sort is stable: of two posts with equal dates, the one    *)
(* whose file comes first in the discovered list comes first in posts.     *)
(***************************************************************************)
\* the position of a file in the list returned by glob
Discovery(f) == CHOOSE k \in DOMAIN files : files[k] = f

C16_StableDateSort ==
  Returned =>
    \A i, j \in DOMAIN posts :
      (/\ posts[i].date = posts[j].date
       /\ Discovery(posts[i].sourcePath) < Discovery(posts[j].sourcePath)) => i < j

C16_Witness ==
  /\ Returned
  /\ \E i, j \in DOMAIN posts :
       /\ i < j
       /\ posts[i].date = posts[j].date
       /\ Discovery(posts[i].sourcePath) < Discovery(posts[j].sourcePath)

(***************************************************************************)
(* C17, as claimed: while some discovered file is still unprocessed no     *)
(* item is in a collection and no collection is sorted; the SiteContent is *)
(* returned only once every file is processed and the three sorts have     *)
(* run.                                                                    *)
(***************************************************************************)
SomeFileUnprocessed == pc = "loop" /\ idx <= Len(files)

AllSorted(ps, gs, ds) == NewestFirst(ps) /\ SortedByLocale(gs) /\ SortedByLocale(ds)

C17_ReduceAfterBuild ==
  /\ SomeFileUnprocessed => posts = <<>> /\ pages = <<>> /\ drafts = <<>>
  /\ Returned => idx > Len(files) /\ AllSorted(posts, pages, drafts)

(***************************************************************************)
(* C17, amended: while some file is still unprocessed a step only appends  *)
(* the item built from the current file to one collection (the partition   *)
(* goes along with the per-file build) and never reorders a collection;    *)
(* the sorts run, and the SiteContent is returned, only once every file is *)
(* processed, and what is returned is sorted.                              *)
(***************************************************************************)
Pushed(before, after) ==
  after = before \/ after = before \o ItemOf(files[idx])

C17_SortAfterBuild ==
  [][/\ SomeFileUnprocessed =>
          /\ pc' = "loop"
          /\ Pushed(posts, posts')
          /\ Pushed(pages, pages')
          /\ Pushed(drafts, drafts')
     /\ pc' = "done" =>
          /\ idx > Len(files)
          /\ Len(built) = Len(files)
          /\ AllSorted(posts', pages', drafts')]_vars

C17_Witness ==
  /\ Returned
  /\ \E k \in DOMAIN built : built[k].processedItem # <<>> /\ k < Len(files)
  /\ \E i, j \in DOMAIN pages :
       i < j /\ Discovery(pages[i].sourcePath) > Discovery(pages[j].sourcePath)

(***************************************************************************)
(* C18: an .html file always has empty front matter: classified as post it *)
(* is dropped for lack of a date, so every item of posts is Markdown; an   *)
(* .html page or draft is never dropped by the publish filter and its      *)
(* permalink never comes from a front-matter slug.                         *)
(***************************************************************************)
IsHtml(f) == endsWith(f, HTML)

\* the permalink of file f when no front matter is given
PermalinkByName(f, itemType) ==
  generatePermalink(relative(config.source, f), EmptyFrontMatter,
                    IF itemType = "root_page" THEN "page" ELSE itemType, config)

C18_HtmlHasNoFrontMatter ==
  /\ \A k \in DOMAIN built :
       LET b == built[k]
       IN IsHtml(b.filePath) =>
            /\ b.processedItem # <<>> =>
                 /\ b.processedItem[1].fileType = "html"
                 /\ b.processedItem[1].frontMatter = EmptyFrontMatter
                 /\ b.processedItem[1].permalink = PermalinkByName(b.filePath, b.itemType)
            /\ b.itemType = "post" => b.processedItem = <<>>
            /\ (b.itemType \in {"page", "root_page", "draft"} /\ ~Thrown(b.filePath))
                 => b.processedItem # <<>>
  /\ \A k \in DOMAIN posts : posts[k].fileType = "markdown"
  /\ Returned =>
       \A k \in DOMAIN files :
         (IsHtml(files[k]) /\ ClassifyFile(files[k], config) = "post") => Absent(files[k])

C18_Witness ==
  /\ Returned
  /\ \E k \in DOMAIN files :
       /\ IsHtml(files[k])
       /\ ClassifyFile(files[k], config) = "post"
       /\ disk[files[k]].fm.date.k = "Date"
       /\ Absent(files[k])
  /\ \E k \in DOMAIN pages :
       /\ pages[k].fileType = "html"
       /\ disk[pages[k].sourcePath].fm.published = "false"
       /\ disk[pages[k].sourcePath].fm.slug.k = "string"

====
